---- MODULE Spec2Model ----
(***************************************************************************)
(* A model of the jogging tracker's GeoStats engine                        *)
(* (src/src/utils/locationUtils.ts), of the detail views' route            *)
(* rendering (JoggingDetailPage.tsx / JoggingDetailScreen.tsx) and of the  *)
(* tracking views that feed the engine (JoggingScreen.tsx /                *)
(* JoggingPage.tsx) with the session rows they save.                       *)
(*                                                                         *)
(* JavaScript numbers are modelled as tagged values:                       *)
(*   [tag |-> "number", v |-> k]   a finite number, k a fixed-point count  *)
(*   [tag |-> "NaN", ...], [tag |-> "Infinity", ...]                       *)
(*   [tag |-> "undefined", ...], [tag |-> "null", ...]  an unset field     *)
(* Fixed-point units: speeds and the scalar argument x are in tenths       *)
(* (1.5 m/s is 15, 65 s is 650); latitudes and longitudes are in           *)
(* thousandths of a degree; trigonometric values and radians are in        *)
(* 1/Scale; distances are in metres.  Every arithmetic operation rounds    *)
(* its exact result to the nearest representable value, as IEEE-754        *)
(* arithmetic does.                                                        *)
(***************************************************************************)
EXTENDS Integers, Sequences, FiniteSets, TLC

VARIABLES
    locations,  \* the route handed to the engine / held by the detail view
    x,          \* the scalar argument (a speed or a number of seconds)
    call,       \* the last call made: [fn |-> name, ret |-> returned value]
    component,  \* the tracking view mounted: "JoggingScreen" or "JoggingPage"
    state,      \* its React state, every update applied
    view,       \* the state as of its last render, which its handlers see
    watch,      \* the location subscriptions and the state their callbacks see
    back,       \* the state the hardware back handler sees
    refs,       \* startTimeRef, pausedTimeRef and lastPauseTimeRef
    user,       \* the buttons the user has yet to press
    starts,     \* the calls of startTracking that wait for startSession
    timers,     \* the interval timers and the state their callbacks see
    sessions,   \* the rows of jogging_sessions, as inserted
    points,     \* the rows of location_points, as inserted
    sequence,   \* the last auto-generated id of each table
    deletes,    \* the calls of deleteSession that wait for a statement
    now,        \* the clock, in ticks of a second
    sensor,     \* the positions the location sensor has yet to deliver
    event       \* the last thing that happened to the tracking view

engineVars == <<locations, x, call>>

trackingVars ==
    <<component, state, view, watch, back, refs, user, starts, timers,
      sessions, points, sequence, deletes, now, sensor, event>>

vars == <<engineVars, trackingVars>>

----------------------------------------------------------------------------
(* Bounds of the model *)

\* longest route drawn
MaxLen == 3
\* the scalar arguments cover every tenth in -MaxArg..MaxArg (4.5 m/s)
MaxArg == 45

----------------------------------------------------------------------------
(* JavaScript values *)

Num(k) == [tag |-> "number", v |-> k]
NaN == [tag |-> "NaN", v |-> 0]
Infinity == [tag |-> "Infinity", v |-> 0]
undefined == [tag |-> "undefined", v |-> 0]
null == [tag |-> "null", v |-> 0]

\* isNaN(n) for an argument of type number
isNaN(n) == n.tag = "NaN"

\* a < c for a numeric literal c: false when a is NaN
Lt(a, c) == (a.tag = "number" /\ a.v < c)

\* a > c for a numeric literal c: false when a is NaN
Gt(a, c) == (a.tag = "Infinity") \/ (a.tag = "number" /\ a.v > c)

\* the width of the significand: a number keeps SignificandBits significant
\* bits (the 53 bits of a double scaled down with the resolution of the model)
SignificandBits == 24

\* the spacing of the representable values around a magnitude n >= 0
RECURSIVE Ulp(_, _)
Ulp(n, u) == IF n \div u < 2 ^ SignificandBits THEN u ELSE Ulp(n, 2 * u)

\* the representable value nearest to the exact result k, ties to even
RoundToNearest(k) ==
    LET n == IF k < 0 THEN -k ELSE k
        u == Ulp(n, 1)
        q == n \div u
        r == n % u
        m == IF 2 * r > u \/ (2 * r = u /\ q % 2 = 1) THEN (q + 1) * u ELSE q * u
    IN  IF k < 0 THEN -m ELSE m

\* a + b
Add(a, b) ==
    IF a.tag = "number" /\ b.tag = "number" THEN Num(RoundToNearest(a.v + b.v))
    ELSE IF a.tag = "Infinity" /\ b.tag # "NaN" THEN Infinity
    ELSE IF b.tag = "Infinity" /\ a.tag # "NaN" THEN Infinity
    ELSE NaN

\* value || 0 : the value unless it is falsy (undefined, null, NaN, 0)
OrZero(value) ==
    IF value.tag \in {"undefined", "null", "NaN"} THEN Num(0) ELSE value

\* the exact quotient a / b (b > 0) rounded to the nearest representable
\* value, ties away from zero (sign-symmetric, as IEEE rounding is)
RoundDiv(a, b) ==
    IF a >= 0 THEN (2 * a + b) \div (2 * b)
    ELSE -((2 * (-a) + b) \div (2 * b))

----------------------------------------------------------------------------
(* Math.sin, Math.cos, Math.sqrt, Math.atan2 in fixed point *)

\* resolution of radians and of trigonometric values: 1/Scale
Scale == 10000
\* Math.PI
PI == 31416

\* the product of two values in 1/Scale
Mul(a, b) == RoundDiv(a * b, Scale)

\* the alternating power series  term - term*x2/((k+1)(k+2)) + ...
RECURSIVE Series(_, _, _, _)
Series(x2, term, k, acc) ==
    IF term = 0 \/ k > 20 THEN acc
    ELSE Series(x2, -RoundDiv(Mul(term, x2), (k + 1) * (k + 2)), k + 2, acc + term)

\* Math.sin(r), r in radians/Scale, |r| <= PI/2
MathSin(r) == Series(Mul(r, r), r, 1, 0)

\* Math.cos(r), r in radians/Scale, |r| <= PI/2
MathCos(r) == Series(Mul(r, r), Scale, 0, 0)

RECURSIVE SqrtSearch(_, _, _)
SqrtSearch(n, lo, hi) ==
    IF lo >= hi THEN lo
    ELSE LET mid == (lo + hi + 1) \div 2
         IN  IF mid * mid <= n THEN SqrtSearch(n, mid, hi)
             ELSE SqrtSearch(n, lo, mid - 1)

\* Math.sqrt(a), a in 1/Scale: NaN for a negative argument
MathSqrt(a) ==
    IF a < 0 THEN NaN
    ELSE LET n == a * Scale
             r == SqrtSearch(n, 0, 2 * Scale)
         IN  Num(IF n - r * r > r THEN r + 1 ELSE r)

\* t - t^3/3 + t^5/5 - ...
RECURSIVE AtanSeries(_, _, _, _)
AtanSeries(t2, pow, k, acc) ==
    IF pow = 0 \/ k > 25 THEN acc
    ELSE AtanSeries(t2, -Mul(pow, t2), k + 2, acc + RoundDiv(pow, k))

\* atan(t) for 0 <= t <= 1, by atan(t) = 2 atan(t / (1 + sqrt(1 + t^2)))
Atan(t) ==
    LET root == MathSqrt(Scale + Mul(t, t)).v
        half == RoundDiv(t * Scale, Scale + root)
    IN  2 * AtanSeries(Mul(half, half), half, 1, 0)

\* Math.atan2(y, x) for the arguments the haversine formula gives it:
\* two square roots (each >= 0) or NaN
MathAtan2(y, xx) ==
    IF y.tag # "number" \/ xx.tag # "number" THEN NaN
    ELSE IF y.v = 0 THEN Num(0)
    ELSE IF y.v <= xx.v THEN Num(Atan(RoundDiv(y.v * Scale, xx.v)))
    ELSE Num(RoundDiv(PI, 2) - Atan(RoundDiv(xx.v * Scale, y.v)))

----------------------------------------------------------------------------
(* locationUtils.ts *)

\* Earth's radius in metres
R == 6371000

\* degrees to radians: (deg * Math.PI) / 180
ToRadians(deg) == RoundDiv(deg * (PI \div 8), (180 * 1000) \div 8)

\* d whole degrees in thousandths of a degree
Degrees(d) == 1000 * d

\* R * c for c in radians/Scale, in metres
TimesR(c) == RoundToNearest(RoundDiv((R \div 1000) * c, Scale \div 1000))

\* the haversine formula on the angles given: the intermediate value a is
\* a sum of rounded terms and can exceed 1 (Scale), where Math.sqrt(1 - a)
\* is NaN
Haversine(phi1, phi2, dphi, dlambda) ==
    LET sdphi == MathSin(RoundDiv(dphi, 2))
        sdlambda == MathSin(RoundDiv(dlambda, 2))
        a == Mul(sdphi, sdphi)
             + Mul(Mul(Mul(MathCos(phi1), MathCos(phi2)), sdlambda), sdlambda)
        at == MathAtan2(MathSqrt(a), MathSqrt(Scale - a))
    IN  IF at.tag # "number" THEN NaN ELSE Num(TimesR(2 * at.v))

\* a variant that adds the latitudes where the source subtracts them
calculateDistance_LatSum(lat1, lon1, lat2, lon2) ==
    Haversine(ToRadians(lat1), ToRadians(lat2),
              ToRadians(lat2 + lat1), ToRadians(lon2 - lon1))

\* a variant that takes the cosine of the first latitude twice
calculateDistance_CosTwice(lat1, lon1, lat2, lon2) ==
    Haversine(ToRadians(lat1), ToRadians(lat1),
              ToRadians(lat2 - lat1), ToRadians(lon2 - lon1))

\* a variant that rejects latitudes outside [-90, 90] and longitudes outside
\* [-180, 180]
calculateDistance_RangeChecked(lat1, lon1, lat2, lon2) ==
    IF \/ lat1 < Degrees(-90) \/ lat1 > Degrees(90)
       \/ lat2 < Degrees(-90) \/ lat2 > Degrees(90)
       \/ lon1 < Degrees(-180) \/ lon1 > Degrees(180)
       \/ lon2 < Degrees(-180) \/ lon2 > Degrees(180)
    THEN [tag |-> "RangeError", v |-> 0]
    ELSE Haversine(ToRadians(lat1), ToRadians(lat2),
                   ToRadians(lat2 - lat1), ToRadians(lon2 - lon1))

\* The angles between points close to each other are too small for 1/Scale
\* of a radian: for points within NearRange thousandths of a degree of each
\* other in latitude and in longitude the same formula is evaluated with
\* the differences in 1/FineScale of a radian (and a in 1/FineScale^2).
FineScale == 100000000

NearRange == 20

Near(d) == -NearRange <= d /\ d <= NearRange

\* (d * Math.PI) / 180 for a difference d within NearRange, in 1/FineScale:
\* a thousandth of a degree is 1745.329 / FineScale radians
ToRadiansNear(d) == RoundDiv(d * 1745329, 1000)

\* Math.sin(h) for a small h in 1/FineScale: h - h^3 / 6
SinNear(h) == h - RoundDiv(h * RoundDiv(h * h, FineScale), 6 * FineScale)

\* Math.atan2(y, xx) for a small y and an xx just below 1, in 1/FineScale:
\* t - t^3 / 3 for t = y / xx = y + y * (1 - xx)
AtanNear(y, xx) ==
    LET t == y + RoundDiv(y * (FineScale - xx), FineScale)
    IN  t - RoundDiv(t * RoundDiv(t * t, FineScale), 3 * FineScale)

\* a variant without the factor 2 of c = 2 * Math.atan2(...)
HaversineNear_NoFactor2(lat1, lat2, dlat, dlon) ==
    LET sdphi == SinNear(RoundDiv(ToRadiansNear(dlat), 2))
        sdlambda == SinNear(RoundDiv(ToRadiansNear(dlon), 2))
        coscos == Mul(MathCos(ToRadians(lat1)), MathCos(ToRadians(lat2)))
        a == sdphi * sdphi + RoundDiv(sdlambda * sdlambda, Scale) * coscos
        sqrtA == SqrtSearch(a, 0, 46340)
        sqrt1A == FineScale - RoundDiv(a, 2 * FineScale)
        c == AtanNear(sqrtA, sqrt1A)
    IN  Num(RoundToNearest(RoundDiv((R \div 1000) * c, FineScale \div 1000)))

\* the haversine formula for two points near each other
HaversineNear(lat1, lat2, dlat, dlon) ==
    LET sdphi == SinNear(RoundDiv(ToRadiansNear(dlat), 2))
        sdlambda == SinNear(RoundDiv(ToRadiansNear(dlon), 2))
        coscos == Mul(MathCos(ToRadians(lat1)), MathCos(ToRadians(lat2)))
        a == sdphi * sdphi + RoundDiv(sdlambda * sdlambda, Scale) * coscos
        sqrtA == SqrtSearch(a, 0, 46340)
        sqrt1A == FineScale - RoundDiv(a, 2 * FineScale)
        c == 2 * AtanNear(sqrtA, sqrt1A)
    IN  Num(RoundToNearest(RoundDiv((R \div 1000) * c, FineScale \div 1000)))

\* calculateDistance(lat1, lon1, lat2, lon2), in metres; the coordinates
\* are in thousandths of a degree
calculateDistance(lat1, lon1, lat2, lon2) ==
    IF Near(lat2 - lat1) /\ Near(lon2 - lon1)
    THEN HaversineNear(lat1, lat2, lat2 - lat1, lon2 - lon1)
    ELSE Haversine(ToRadians(lat1), ToRadians(lat2),
                   ToRadians(lat2 - lat1), ToRadians(lon2 - lon1))


\* the loop of calculateTotalDistance: i is the 1-based index of `current`
RECURSIVE TotalDistanceLoop(_, _, _)
TotalDistanceLoop(locs, i, totalDistance) ==
    IF i > Len(locs) THEN totalDistance
    ELSE LET prev == locs[i - 1]
             current == locs[i]
         IN  TotalDistanceLoop(locs, i + 1,
                 Add(totalDistance,
                     calculateDistance(prev.latitude, prev.longitude,
                                       current.latitude, current.longitude)))

\* a variant whose loop starts one pair late (let i = 2)
calculateTotalDistance_SkipFirst(locs) ==
    IF Len(locs) < 2 THEN Num(0)
    ELSE TotalDistanceLoop(locs, 3, Num(0))

\* a variant that measures the first sample from a default previous sample
\* at latitude 0, longitude 0
calculateTotalDistance_FromOrigin(locs) ==
    IF Len(locs) = 0 THEN Num(0)
    ELSE TotalDistanceLoop(locs, 2,
             calculateDistance(0, 0, locs[1].latitude, locs[1].longitude))

\* a variant whose accumulator is a variable of the module, so that a call
\* starts from the total the call before it returned
calculateTotalDistance_SharedAccumulator(locs) ==
    IF Len(locs) < 2 THEN Num(0)
    ELSE TotalDistanceLoop(locs, 2,
             IF call.fn = "calculateTotalDistance" THEN call.ret ELSE Num(0))

\* calculateTotalDistance(locations), in metres
calculateTotalDistance(locs) ==
    IF Len(locs) < 2 THEN Num(0)
    ELSE TotalDistanceLoop(locs, 2, Num(0))

\* locations.filter(point => point.speed !== undefined && point.speed !== null)
speedPointsOf(locs) ==
    SelectSeq(locs, LAMBDA point : point.speed # undefined /\ point.speed # null)

\* speedPoints.reduce((sum, point) => sum + (point.speed || 0), 0)
RECURSIVE ReduceSpeed(_, _, _)
ReduceSpeed(speedPoints, i, sum) ==
    IF i > Len(speedPoints) THEN sum
    ELSE ReduceSpeed(speedPoints, i + 1, Add(sum, OrZero(speedPoints[i].speed)))

\* a / n for a count n > 0, rounded to the nearest representable value
Divide(a, n) ==
    IF a.tag = "number" THEN Num(RoundDiv(a.v, n)) ELSE a

\* a variant that divides by locations.length
calculateAverageSpeed_DivideByAll(locs) ==
    IF Len(locs) < 2 THEN Num(0)
    ELSE LET speedPoints == speedPointsOf(locs)
         IN  IF Len(speedPoints) = 0 THEN Num(0)
             ELSE Divide(ReduceSpeed(speedPoints, 1, Num(0)), Len(locs))

\* a variant whose length guard is that of calculateMaxSpeed (length === 0)
calculateAverageSpeed_EmptyGuard(locs) ==
    IF Len(locs) = 0 THEN Num(0)
    ELSE LET speedPoints == speedPointsOf(locs)
         IN  IF Len(speedPoints) = 0 THEN Num(0)
             ELSE Divide(ReduceSpeed(speedPoints, 1, Num(0)), Len(speedPoints))

\* calculateAverageSpeed(locations), in tenths of m/s
calculateAverageSpeed(locs) ==
    IF Len(locs) < 2 THEN Num(0)
    ELSE LET speedPoints == speedPointsOf(locs)
         IN  IF Len(speedPoints) = 0 THEN Num(0)
             ELSE Divide(ReduceSpeed(speedPoints, 1, Num(0)), Len(speedPoints))

\* Math.max(...values) for a non-empty list of finite numbers
RECURSIVE MathMax(_, _, _)
MathMax(values, i, best) ==
    IF i > Len(values) THEN best
    ELSE MathMax(values, i + 1,
                 IF values[i].v > best.v THEN values[i] ELSE best)

\* a variant whose length guard is that of calculateAverageSpeed (length < 2)
calculateMaxSpeed_LengthGuard(locs) ==
    IF Len(locs) < 2 THEN Num(0)
    ELSE LET speedPoints == speedPointsOf(locs)
             values == [i \in 1..Len(speedPoints) |-> OrZero(speedPoints[i].speed)]
         IN  IF Len(speedPoints) = 0 THEN Num(0)
             ELSE MathMax(values, 2, values[1])

\* calculateMaxSpeed(locations), in tenths of m/s
calculateMaxSpeed(locs) ==
    IF Len(locs) = 0 THEN Num(0)
    ELSE LET speedPoints == speedPointsOf(locs)
             values == [i \in 1..Len(speedPoints) |-> OrZero(speedPoints[i].speed)]
         IN  IF Len(speedPoints) = 0 THEN Num(0)
             ELSE MathMax(values, 2, values[1])

\* a variant that compares with <= (a value in tenths is <= c iff < c + 1)
getActivityType_Inclusive(speed) ==
    IF Lt(speed, 15 + 1) THEN "walking"
    ELSE IF Lt(speed, 30 + 1) THEN "jogging"
    ELSE "running"

\* getActivityType(speed), speed in tenths of m/s
getActivityType(speed) ==
    IF Lt(speed, 15) THEN "walking"
    ELSE IF Lt(speed, 30) THEN "jogging"
    ELSE "running"

\* a variant that takes the thresholds of getActivityType for the first bands
getSpeedColor_ActivityThresholds(speed) ==
    IF Lt(speed, 15) THEN "#3498db"
    ELSE IF Lt(speed, 20) THEN "#2ecc71"
    ELSE IF Lt(speed, 30) THEN "#f1c40f"
    ELSE IF Lt(speed, 40) THEN "#e67e22"
    ELSE "#e74c3c"

\* getSpeedColor(speed), speed in tenths of m/s
getSpeedColor(speed) ==
    IF Lt(speed, 10) THEN "#3498db"
    ELSE IF Lt(speed, 20) THEN "#2ecc71"
    ELSE IF Lt(speed, 30) THEN "#f1c40f"
    ELSE IF Lt(speed, 40) THEN "#e67e22"
    ELSE "#e74c3c"

----------------------------------------------------------------------------
(* formatDuration *)

\* Math.floor(n / c), n in tenths, c a positive integer literal: an integer
MathFloorDiv(n, c) ==
    IF n.tag = "number" THEN Num(n.v \div (c * 10)) ELSE n

\* n % c, n in tenths: the remainder takes the sign of the dividend, and
\* Infinity % c is NaN
Rem(n, c) ==
    IF n.tag # "number" THEN NaN
    ELSE IF n.v >= 0 THEN Num(n.v % (c * 10))
    ELSE Num(-((-n.v) % (c * 10)))

\* Math.floor(n), n in tenths: an integer
MathFloor(n) ==
    IF n.tag = "number" THEN Num(n.v \div 10) ELSE n

\* the decimal digits of a natural number
RECURSIVE DigitsOf(_)
DigitsOf(k) ==
    LET d == <<"0", "1", "2", "3", "4", "5", "6", "7", "8", "9">>[(k % 10) + 1]
    IN  IF k < 10 THEN d ELSE DigitsOf(k \div 10) \o d

\* n.toString() for an integer-valued number, NaN or Infinity
NumberToString(n) ==
    IF n.tag = "NaN" THEN "NaN"
    ELSE IF n.tag = "Infinity" THEN "Infinity"
    ELSE IF n.v < 0 THEN "-" \o DigitsOf(-n.v)
    ELSE DigitsOf(n.v)

\* str.padStart(targetLength, padString) for a one-character padString
RECURSIVE padStart(_, _, _)
padStart(str, targetLength, padString) ==
    IF Len(str) >= targetLength THEN str
    ELSE padStart(padString \o str, targetLength, padString)

\* a variant that shows the hours field whenever hours >= 0
formatDuration_HoursAlways(seconds) ==
    IF isNaN(seconds) THEN "00:00"
    ELSE LET hours == MathFloorDiv(seconds, 3600)
             minutes == MathFloorDiv(Rem(seconds, 3600), 60)
             secs == MathFloor(Rem(seconds, 60))
             mmss == padStart(NumberToString(minutes), 2, "0") \o ":"
                     \o padStart(NumberToString(secs), 2, "0")
         IN  IF Gt(hours, -1)
             THEN padStart(NumberToString(hours), 2, "0") \o ":" \o mmss
             ELSE mmss

\* a variant without the isNaN guard
formatDuration_NoNaNGuard(seconds) ==
    LET hours == MathFloorDiv(seconds, 3600)
        minutes == MathFloorDiv(Rem(seconds, 3600), 60)
        secs == MathFloor(Rem(seconds, 60))
        mmss == padStart(NumberToString(minutes), 2, "0") \o ":"
                \o padStart(NumberToString(secs), 2, "0")
    IN  IF Gt(hours, 0)
        THEN padStart(NumberToString(hours), 2, "0") \o ":" \o mmss
        ELSE mmss

\* formatDuration(seconds), seconds in tenths of a second
formatDuration(seconds) ==
    IF isNaN(seconds) THEN "00:00"
    ELSE LET hours == MathFloorDiv(seconds, 3600)
             minutes == MathFloorDiv(Rem(seconds, 3600), 60)
             secs == MathFloor(Rem(seconds, 60))
             mmss == padStart(NumberToString(minutes), 2, "0") \o ":"
                     \o padStart(NumberToString(secs), 2, "0")
         IN  IF Gt(hours, 0)
             THEN padStart(NumberToString(hours), 2, "0") \o ":" \o mmss
             ELSE mmss

\* 2^e modulo 25
RECURSIVE Pow2Mod25(_)
Pow2Mod25(e) == IF e = 0 THEN 1 ELSE (2 * Pow2Mod25(e - 1)) % 25

\* the g with 25 * 2^g <= n < 25 * 2^(g + 1), searched upwards from g
RECURSIVE Log2Over25(_, _)
Log2Over25(n, g) ==
    IF g < 0 THEN (IF n * 2 ^ (-g) >= 25 THEN g ELSE Log2Over25(n, g - 1))
    ELSE IF n < 25 * 2 ^ (g + 1) THEN g ELSE Log2Over25(n, g + 1)

\* For an odd n, n / 200 lies half way between two hundredths. The number
\* holding it is the double nearest to it: n / 200 = (n / 25) / 8, its 53-bit
\* significand is the quotient of n * 2^e by 25 for the e that gives 53 bits,
\* and the remainder r of that division tells how it was rounded: up for
\* 2r > 25, down otherwise, not at all for r = 0. toFixed picks the larger
\* hundredth when the number is at or above the half.
AtOrAboveHalf(n) ==
    LET g == Log2Over25(n, IF n < 25 THEN -1 ELSE 0)
        r == ((n % 25) * Pow2Mod25(52 - g)) % 25
    IN  r = 0 \/ 2 * r > 25

\* meters / 1000: a number of tenths of a metre is the same number of
\* ten-thousandths of a kilometre
Kilometers(meters) == meters

\* kilometers.toFixed(2), kilometers in ten-thousandths: NaN and Infinity
\* give their names, a negative number the sign and the digits of its
\* magnitude, the magnitude rounded to the nearest hundredth
toFixed2(kilometers) ==
    IF kilometers.tag = "NaN" THEN "NaN"
    ELSE IF kilometers.tag = "Infinity" THEN "Infinity"
    ELSE LET m == IF kilometers.v < 0 THEN -kilometers.v ELSE kilometers.v
             q == m \div 100
             r == m % 100
             h == IF r > 50 \/ (r = 50 /\ AtOrAboveHalf(2 * q + 1))
                  THEN q + 1 ELSE q
         IN  (IF kilometers.v < 0 THEN "-" ELSE "")
             \o DigitsOf(h \div 100) \o "." \o padStart(DigitsOf(h % 100), 2, "0")

\* a variant that cuts the digits after the second decimal off
formatDistance_Truncated(meters) ==
    IF meters.tag # "number" THEN toFixed2(Kilometers(meters))
    ELSE toFixed2(Num(IF meters.v < 0 THEN -(((-meters.v) \div 100) * 100)
                      ELSE (meters.v \div 100) * 100))

\* formatDistance(meters), meters in tenths of a metre
formatDistance(meters) == toFixed2(Kilometers(meters))

\* metersPerSecond * 3.6: a tenth of a metre per second is 36 hundredths of
\* a kilometre per hour
KmPerHour(metersPerSecond) ==
    IF metersPerSecond.tag = "number" THEN Num(36 * metersPerSecond.v)
    ELSE metersPerSecond

\* kmPerHour.toFixed(1), kmPerHour in hundredths: NaN and Infinity give
\* their names, a negative number the sign and the digits of its magnitude,
\* the magnitude rounded to the nearest tenth (a multiple of 36 hundredths
\* is even and never lies half way between two tenths)
toFixed1(kmPerHour) ==
    IF kmPerHour.tag = "NaN" THEN "NaN"
    ELSE IF kmPerHour.tag = "Infinity" THEN "Infinity"
    ELSE LET m == IF kmPerHour.v < 0 THEN -kmPerHour.v ELSE kmPerHour.v
             q == m \div 10
             h == IF m % 10 > 5 THEN q + 1 ELSE q
         IN  (IF kmPerHour.v < 0 THEN "-" ELSE "")
             \o DigitsOf(h \div 10) \o "." \o DigitsOf(h % 10)

\* a variant that renders metres per second, without the factor 3.6
formatSpeed_NoConversion(metersPerSecond) ==
    toFixed1(IF metersPerSecond.tag = "number"
             THEN Num(10 * metersPerSecond.v) ELSE metersPerSecond)

\* formatSpeed(metersPerSecond), metersPerSecond in tenths
formatSpeed(metersPerSecond) == toFixed1(KmPerHour(metersPerSecond))

----------------------------------------------------------------------------
(* The detail views *)

\* nextPoint.speed || 0, then getSpeedColor: one Polyline per pair
Polyline(point, nextPoint, index) ==
    [key |-> index,
     positions |-> << <<point.latitude, point.longitude>>,
                      <<nextPoint.latitude, nextPoint.longitude>> >>,
     color |-> getSpeedColor(OrZero(nextPoint.speed))]

\* JoggingDetailPage's renderRouteSegments: the Polylines rendered (null, for
\* fewer than 2 locations, renders none); index is the 0-based map index
renderRouteSegmentsPage(locs) ==
    IF Len(locs) < 2 THEN << >>
    ELSE [i \in 1..(Len(locs) - 1) |-> Polyline(locs[i], locs[i + 1], i - 1)]

\* a variant that colours each segment by the speed of its first sample
renderRouteSegmentsScreen_BySource(locs) ==
    IF Len(locs) < 2 THEN << >>
    ELSE [i \in 1..(Len(locs) - 1) |->
            [Polyline(locs[i], locs[i + 1], i - 1)
                EXCEPT !.color = getSpeedColor(OrZero(locs[i].speed))]]

\* JoggingDetailScreen's renderRouteSegments
renderRouteSegmentsScreen(locs) ==
    IF Len(locs) < 2 THEN << >>
    ELSE [i \in 1..(Len(locs) - 1) |-> Polyline(locs[i], locs[i + 1], i - 1)]

----------------------------------------------------------------------------
(* Inputs *)

LocationPoint(lat, lon, ts, speed) ==
    [latitude |-> lat, longitude |-> lon, timestamp |-> ts, speed |-> speed]

\* the samples routes are drawn from: speeds present, unset (undefined in
\* memory, null from the store), zero and negative; a repeated position; an
\* antipodal pair; timestamps that are not increasing
Samples ==
    { LocationPoint(Degrees(0), Degrees(0), 1000, Num(10)),
      LocationPoint(Degrees(0), Degrees(90), 2000, undefined),
      LocationPoint(Degrees(45), Degrees(0), 3000, Num(20)),
      LocationPoint(Degrees(0), Degrees(180), 1500, null),
      LocationPoint(Degrees(0), Degrees(0), 4000, Num(-10)),
      LocationPoint(Degrees(-45), Degrees(90), 2000, Num(0)),
      LocationPoint(Degrees(60), Degrees(120), 5000, Num(35)) }

Routes == UNION { [1..n -> Samples] : n \in 0..MaxLen }

\* positions for pairs of samples: equal, antipodal and near-antipodal
\* points, the poles, latitudes and longitudes out of range
Positions ==
    { <<0, 0>>, <<45, 0>>, <<12, 0>>, <<-12, 180>>, <<12, 180>>, <<37, -60>>,
      <<60, 120>>, <<90, 0>>, <<-90, 0>>, <<100, 10>>, <<-30, 190>> }

\* the routes of two samples at these positions
PointPairs ==
    { << LocationPoint(Degrees(p[1]), Degrees(p[2]), 1000, Num(10)),
         LocationPoint(Degrees(q[1]), Degrees(q[2]), 2000, Num(20)) >> :
           p \in Positions, q \in Positions }

\* routes of samples a few thousandths of a degree from each other: 0.009
\* degrees of latitude apart at the equator, northwards and southwards;
\* 0.018 degrees of longitude apart at 60 degrees north; three samples in a
\* row
NearRoutes ==
    { << LocationPoint(0, lon, 1000, Num(20)),
         LocationPoint(dlat, lon, 2000, Num(30)) >> :
           lon \in {0, 77123, -120500}, dlat \in {9, -9} }
    \cup { << LocationPoint(Degrees(60), 10000, 1000, Num(20)),
              LocationPoint(Degrees(60), 10018, 2000, Num(30)) >>,
           << LocationPoint(0, 0, 1000, Num(20)),
              LocationPoint(9, 0, 2000, Num(30)),
              LocationPoint(18, 0, 3000, Num(30)) >>,
           << LocationPoint(0, 0, 1000, Num(20)),
              LocationPoint(20, 20, 2000, Num(30)) >> }

\* routes one longer than MaxLen over three of the samples
LongRoutes ==
    [ 1..(MaxLen + 1) -> { LocationPoint(Degrees(0), Degrees(0), 1000, Num(10)),
                           LocationPoint(Degrees(0), Degrees(90), 2000, undefined),
                           LocationPoint(Degrees(60), Degrees(120), 5000, Num(35)) } ]

\* hours the durations reach
MaxHours == 100

\* durations in seconds, among them negative ones
DurationSeconds ==
    { 0, 5, 59, 60, 65, 600, 3599, 3600, 3661, 35999, 36000, 86399,
      MaxHours * 3600, MaxHours * 3600 + 61, -5, -65, -3600, -3661 }

\* distances in metres: whole and half hundredths of a kilometre, among them
\* negative ones
DistanceMeters ==
    { 4, 5, 6, 15, 25, 35, 125, 375, 994, 995, 1005, 1234, 1235, 1500, 9995,
      12345, 42195, 99995, -4, -5, -15, -125, -1500 }

\* speeds in tenths of a metre per second beyond MaxArg, among them a
\* negative one
SpeedTenths == { 100, 124, 126, 273, -100 }

\* scalar arguments, in tenths: speeds around every threshold, durations
\* (whole and fractional seconds), NaN and Infinity
Numbers ==
    { Num(k) : k \in (-MaxArg)..MaxArg }
    \cup { Num(10 * s) : s \in DurationSeconds }
    \cup { Num(599), Num(655), Num(35999), Num(36001) }
    \cup { Num(10 * m) : m \in DistanceMeters }
    \cup { Num(v) : v \in SpeedTenths }
    \cup { NaN, Infinity }

----------------------------------------------------------------------------
(* The engine as a state machine: an input is drawn, functions are applied *)

\* the state of the tracking view as useState initialises it
InitialState ==
    [ sessionId |-> null, isTracking |-> FALSE, isPaused |-> FALSE,
      locations |-> << >>, elapsedTime |-> 0,
      distance |-> Num(0), averageSpeed |-> Num(0), maxSpeed |-> Num(0) ]

\* startTimeRef, pausedTimeRef and lastPauseTimeRef as useRef initialises
\* them
InitialRefs == [startTime |-> null, pausedTime |-> 0, lastPauseTime |-> null]

\* the variables of its render a handler or callback reads
Closure(env) ==
    [ sessionId |-> env.sessionId, isTracking |-> env.isTracking,
      isPaused |-> env.isPaused, locations |-> env.locations,
      elapsedTime |-> env.elapsedTime ]

\* the tracking view c is mounted over an empty store, and the sensor is to
\* deliver the positions of track
Mounted(c, track) ==
    /\ component = c
    /\ state = InitialState
    /\ view = InitialState
    /\ watch = << >>
    /\ back = Closure(InitialState)
    /\ refs = InitialRefs
    /\ starts = << >>
    /\ timers = << >>
    /\ sessions = << >>
    /\ points = << >>
    /\ sequence = [jogging_sessions |-> 0, location_points |-> 0]
    /\ deletes = << >>
    /\ now = 0
    /\ sensor = track
    /\ event = [name |-> "mount"]

Init ==
    /\ \/ locations \in Routes \cup PointPairs \cup LongRoutes \cup NearRoutes
          /\ x = Num(0)
       \/ locations = << >> /\ x \in Numbers
    /\ call = [fn |-> "none", ret |-> Num(0)]
    /\ Mounted("JoggingScreen", << >>)
    /\ user = << >>

Returns(fn, ret) ==
    /\ call' = [fn |-> fn, ret |-> ret]
    /\ UNCHANGED trackingVars

\* The array passed as `locations`, as each function leaves it.
\* calculateTotalDistance reads locations.length, locations[i - 1] and
\* locations[i] and the coordinates of the two samples, and assigns to none
calculateTotalDistance_locations(locs) == locs

\* filter returns a new array and reduce a number; the callbacks read
\* point.speed
calculateAverageSpeed_locations(locs) == locs

\* a variant that removes the samples without a speed from the array itself
calculateMaxSpeed_locations_InPlace(locs) == speedPointsOf(locs)

\* filter and map return new arrays, and the spread reads the mapped one
calculateMaxSpeed_locations(locs) == locs

\* the call calculateTotalDistance makes for the pair (locations[i - 1],
\* locations[i]), i the 1-based index of `current`
CalculateDistance ==
    \E i \in 2..Len(locations) :
        /\ call' = [fn |-> "calculateDistance", i |-> i,
                    ret |-> calculateDistance(locations[i - 1].latitude,
                                              locations[i - 1].longitude,
                                              locations[i].latitude,
                                              locations[i].longitude)]
        /\ UNCHANGED <<locations, x, trackingVars>>

CalculateTotalDistance ==
    /\ Returns("calculateTotalDistance", calculateTotalDistance(locations))
    /\ locations' = calculateTotalDistance_locations(locations)
    /\ UNCHANGED x

CalculateAverageSpeed ==
    /\ Returns("calculateAverageSpeed", calculateAverageSpeed(locations))
    /\ locations' = calculateAverageSpeed_locations(locations)
    /\ UNCHANGED x

CalculateMaxSpeed ==
    /\ Returns("calculateMaxSpeed", calculateMaxSpeed(locations))
    /\ locations' = calculateMaxSpeed_locations(locations)
    /\ UNCHANGED x

GetActivityType ==
    /\ Returns("getActivityType", getActivityType(x))
    /\ UNCHANGED <<locations, x>>

GetSpeedColor ==
    /\ Returns("getSpeedColor", getSpeedColor(x))
    /\ UNCHANGED <<locations, x>>

FormatDuration ==
    /\ Returns("formatDuration", formatDuration(x))
    /\ UNCHANGED <<locations, x>>

FormatDistance ==
    /\ Returns("formatDistance", formatDistance(x))
    /\ UNCHANGED <<locations, x>>

FormatSpeed ==
    /\ Returns("formatSpeed", formatSpeed(x))
    /\ UNCHANGED <<locations, x>>

RenderRouteSegmentsPage ==
    /\ Returns("renderRouteSegmentsPage", renderRouteSegmentsPage(locations))
    /\ UNCHANGED <<locations, x>>

RenderRouteSegmentsScreen ==
    /\ Returns("renderRouteSegmentsScreen", renderRouteSegmentsScreen(locations))
    /\ UNCHANGED <<locations, x>>

Next ==
    \/ CalculateDistance
    \/ CalculateTotalDistance
    \/ CalculateAverageSpeed
    \/ CalculateMaxSpeed
    \/ GetActivityType
    \/ GetSpeedColor
    \/ FormatDuration
    \/ FormatDistance
    \/ FormatSpeed
    \/ RenderRouteSegmentsPage
    \/ RenderRouteSegmentsScreen

Spec == Init /\ [][Next]_vars

----------------------------------------------------------------------------
(* The tracking views: JoggingScreen (React Native, over expo-sqlite) and   *)
(* JoggingPage (web, over Dexie).  A handler sees the state of the render   *)
(* that created it; a state update reaches the handlers with the next       *)
(* render.  An asynchronous handler is one action per stretch between its   *)
(* awaits.                                                                  *)

\* sessions started per run
MaxSessions == 2

\* ticks on the clock
MaxTime == 2

\* what the sensor delivers: coords.speed is a number or null
Position(lat, lon, ts, speed) ==
    [latitude |-> lat, longitude |-> lon, timestamp |-> ts, speed |-> speed]

\* the streams of positions a run can see: with and without a speed, at
\* positions apart from each other
Tracks ==
    { << Position(Degrees(0), Degrees(0), 1000, Num(20)),
         Position(Degrees(0), Degrees(90), 2000, null) >>,
      << Position(Degrees(0), Degrees(90), 1000, null),
         Position(Degrees(0), Degrees(0), 2000, Num(20)) >> }

\* what the user does with the view: the buttons pressed, in order
Presses ==
    { << "start", "pause", "stop" >>,
      << "start", "pause", "pause", "stop" >>,
      << "start", "start", "stop", "stop" >>,
      << "start", "back" >>,
      << "start", "stop", "start", "stop" >> }

\* newLocation: coords.speed !== null ? coords.speed : 0
NewLocation(position) ==
    LocationPoint(position.latitude, position.longitude, position.timestamp,
                  IF position.speed # null THEN position.speed ELSE Num(0))

\* the views over expo-sqlite; the others are over Dexie
SQLite == component \in {"JoggingScreen", "HistoryScreen"}

\* Date.now(): a time after the epoch; two reads with no tick of the clock
\* between them are equal
DateNow == now + 1

\* a value in a condition: 0, NaN, null and undefined are falsy
Truthy(value) ==
    value.tag = "Infinity" \/ (value.tag = "number" /\ value.v # 0)

\* a column no value was given for: NULL in expo-sqlite, a property the
\* Dexie object does not have
Unset == IF SQLite THEN null ELSE undefined

\* a row of jogging_sessions
SessionRow(id, start, end, totalDistance, averageSpeed, maxSpeed, duration) ==
    [ id |-> id, startTime |-> start, endTime |-> end,
      totalDistance |-> totalDistance, averageSpeed |-> averageSpeed,
      maxSpeed |-> maxSpeed, duration |-> duration ]

\* the id startSession resolves with: insertId of the AUTOINCREMENT key, or
\* the id: Date.now() given to Dexie
startSessionId ==
    IF SQLite THEN sequence.jogging_sessions + 1 ELSE DateNow

\* whether the table has a row with the key
KeyExists(table, id) == \E i \in DOMAIN table : table[i].id = id

\* JoggingService.startSession: INSERT INTO jogging_sessions (start_time) /
\* joggingSessions.add({id, startTime})
startSession(table) ==
    Append(table, SessionRow(startSessionId, DateNow, Unset, Unset, Unset,
                             Unset, Unset))

\* JoggingService.endSession: the summary fields, each `|| 0`, and the end
\* time go into the row of the session
endSession(table, sessionId, stats) ==
    [ i \in DOMAIN table |->
        IF table[i].id = sessionId
        THEN SessionRow(table[i].id, table[i].startTime, Num(DateNow),
                        OrZero(stats.totalDistance),
                        OrZero(stats.averageSpeed), OrZero(stats.maxSpeed),
                        OrZero(Num(stats.duration)))
        ELSE table[i] ]

\* a row of location_points
PointRow(id, sessionId, point, speed) ==
    [ id |-> id, sessionId |-> sessionId, latitude |-> point.latitude,
      longitude |-> point.longitude, timestamp |-> point.timestamp,
      speed |-> speed ]

\* JoggingService.addLocationPoint: expo-sqlite binds point.speed || 0,
\* Dexie stores {...point, sessionId}
addLocationPoint(table, id, sessionId, point) ==
    Append(table, PointRow(id, sessionId, point,
                           IF SQLite THEN OrZero(point.speed) ELSE point.speed))

\* the references of a view that has been unmounted stay with the closures
\* that hold them: nothing can reach them to remove or clear them
Unmounted(closures) ==
    [ i \in DOMAIN closures |->
        [closures[i] EXCEPT !.mounted = FALSE, !.current = FALSE] ]

\* the closures left when the one the ref points to is removed or cleared
WithoutCurrent(closures) == SelectSeq(closures, LAMBDA c : ~c.current)

\* a ref is pointed to a new closure
NoLongerCurrent(closures) ==
    [ i \in DOMAIN closures |-> [closures[i] EXCEPT !.current = FALSE] ]

\* the user presses the button that is next
Pressed(button) ==
    /\ user # << >>
    /\ Head(user) = button
    /\ user' = Tail(user)

\* startTracking up to `await joggingService.startSession()`: the session is
\* inserted, and the rest of the handler waits with the state of its render.
\* Dexie rejects a key it already has, and startTracking reports that.
StartTracking ==
    /\ Pressed("start")
    /\ ~view.isTracking
    /\ Len(sessions) < MaxSessions
    /\ IF KeyExists(sessions, startSessionId)
       THEN /\ event' = [name |-> "alert", text |-> "Failed to start tracking"]
            /\ UNCHANGED <<sessions, sequence, starts>>
       ELSE /\ sessions' = startSession(sessions)
            /\ sequence' = [sequence EXCEPT !.jogging_sessions = @ + 1]
            /\ starts' = Append(starts, [id |-> startSessionId, env |-> Closure(view),
                                         mounted |-> TRUE, current |-> FALSE])
            /\ event' = [name |-> "startTracking", id |-> startSessionId]
    /\ UNCHANGED <<component, state, view, watch, back, refs, timers, points,
                   now, sensor, deletes, engineVars>>

\* startSession has resolved: startTracking sets the session id, the start
\* time and the interval timer. In JoggingPage it runs to its end; in
\* JoggingScreen it calls watchPositionAsync, which is still to resolve. The
\* callbacks of the timer and of the watch see the state of the render
\* startTracking is from. The setters of an unmounted view do nothing.
SessionStarted ==
    /\ starts # << >>
    /\  LET start == Head(starts)
            timer == [env |-> start.env, mounted |-> start.mounted,
                      current |-> start.mounted]
            subscription == [status |-> "pending", env |-> start.env,
                             mounted |-> start.mounted, current |-> FALSE]
        IN  /\ starts' = Tail(starts)
            /\ timers' = Append(IF start.mounted THEN NoLongerCurrent(timers)
                                ELSE timers, timer)
            /\ refs' = IF start.mounted
                       THEN [refs EXCEPT !.startTime = Num(DateNow),
                                         !.pausedTime = 0]
                       ELSE refs
            /\ IF component = "JoggingScreen"
               THEN /\ watch' = Append(watch, subscription)
                    /\ state' = IF start.mounted
                                THEN [state EXCEPT !.sessionId = Num(start.id),
                                                   !.elapsedTime = 0]
                                ELSE state
               ELSE /\ UNCHANGED watch
                    /\ state' = IF start.mounted
                                THEN [state EXCEPT !.sessionId = Num(start.id),
                                                   !.elapsedTime = 0,
                                                   !.isTracking = TRUE,
                                                   !.isPaused = FALSE,
                                                   !.locations = << >>]
                                ELSE state
            /\ event' = [name |-> "sessionStarted", id |-> start.id]
    /\ UNCHANGED <<user, component, view, back, sessions, points, sequence, now,
                   sensor, deletes, engineVars>>

\* JoggingScreen: watchPositionAsync resolves, locationSubscription is
\* pointed to the subscription and startTracking runs to its end
WatchPositionResolved ==
    \E i \in DOMAIN watch :
        /\ watch[i].status = "pending"
        /\ watch' = IF watch[i].mounted
                    THEN [ NoLongerCurrent(watch) EXCEPT
                             ![i] = [@ EXCEPT !.status = "live",
                                              !.current = TRUE] ]
                    ELSE [ watch EXCEPT ![i] = [@ EXCEPT !.status = "live"] ]
        /\ state' = IF watch[i].mounted
                    THEN [state EXCEPT !.isTracking = TRUE, !.isPaused = FALSE,
                                       !.locations = << >>]
                    ELSE state
        /\ event' = [name |-> "subscribed"]
        /\ UNCHANGED <<user, component, view, back, refs, starts, timers, sessions,
                       points, sequence, now, sensor, deletes, engineVars>>

\* whether the callback goes on to record the sample
Accepts(env) ==
    IF component = "JoggingScreen" THEN ~env.isPaused
    ELSE env.isTracking /\ ~env.isPaused

\* whether the callback saves the sample: `if (sessionId)` in JoggingScreen,
\* `if (sessionId !== null)` in JoggingPage
Saves(env) ==
    IF component = "JoggingScreen"
    THEN Truthy(env.sessionId)
    ELSE env.sessionId # null

\* one location callback runs on the new sample: what it leaves of the
\* state, the store and the record of what was done with the sample
Callback(subscription, done, newLocation) ==
    LET env == subscription.env
        allLocations == Append(env.locations, newLocation)
    IN  IF ~Accepts(env) THEN done
        ELSE [ state |->
                 IF subscription.mounted
                 THEN [ done.state EXCEPT
                          !.locations = Append(@, newLocation),
                          !.distance = calculateTotalDistance(allLocations),
                          !.averageSpeed = calculateAverageSpeed(allLocations),
                          !.maxSpeed = calculateMaxSpeed(allLocations) ]
                 ELSE done.state,
               points |->
                 IF Saves(env)
                 THEN addLocationPoint(done.points, done.sequence + 1,
                                       env.sessionId.v, newLocation)
                 ELSE done.points,
               sequence |-> IF Saves(env) THEN done.sequence + 1
                            ELSE done.sequence,
               accepted |-> done.accepted \/ subscription.mounted,
               saved |-> done.saved \/ Saves(env) ]

\* the callbacks of the live subscriptions run, one after the other
RECURSIVE Callbacks(_, _, _)
Callbacks(subscriptions, done, newLocation) ==
    IF subscriptions = << >> THEN done
    ELSE Callbacks(Tail(subscriptions),
                   Callback(Head(subscriptions), done, newLocation),
                   newLocation)

\* the sensor delivers a position to every live subscription (JoggingScreen:
\* the callbacks passed to watchPositionAsync; JoggingPage:
\* handleLocationChange)
LocationChanged ==
    /\ sensor # << >>
    /\ \E i \in DOMAIN watch : watch[i].status = "live"
    /\  LET position == Head(sensor)
            live == SelectSeq(watch, LAMBDA s : s.status = "live")
            done == Callbacks(live,
                              [ state |-> state, points |-> points,
                                sequence |-> sequence.location_points,
                                accepted |-> FALSE, saved |-> FALSE ],
                              NewLocation(position))
        IN  /\ sensor' = Tail(sensor)
            /\ state' = done.state
            /\ points' = done.points
            /\ sequence' = [sequence EXCEPT !.location_points = done.sequence]
            /\ event' = [name |-> "location", accepted |-> done.accepted,
                         saved |-> done.saved, speed |-> position.speed,
                         paused |-> state.isPaused]
            /\ UNCHANGED <<user, component, view, watch, back, refs, starts, timers,
                           sessions, now, deletes, engineVars>>

\* the subscription of JoggingPage's LocationUpdater
PageWatch(env) ==
    [status |-> "live", env |-> Closure(env), mounted |-> TRUE, current |-> TRUE]

\* the view renders: its handlers are created anew. JoggingPage's
\* LocationUpdater subscribes again with the new handleLocationChange, or
\* clears its watch; JoggingScreen's back handler is created anew when
\* isTracking has changed.
Render ==
    /\ view # state
    /\ view' = state
    /\ IF component = "JoggingPage"
       THEN /\ watch' = IF state.isTracking /\ ~state.isPaused
                         THEN << PageWatch(state) >>
                         ELSE << >>
            /\ UNCHANGED back
       ELSE /\ back' = IF state.isTracking # view.isTracking
                          THEN Closure(state) ELSE back
            /\ UNCHANGED watch
    /\ event' = [name |-> "render"]
    /\ UNCHANGED <<user, component, state, refs, starts, timers, sessions, points,
                   sequence, now, sensor, deletes, engineVars>>

\* whether an interval callback sets the elapsed time: isPaused is the one
\* of the callback's render
Elapses(timer) ==
    timer.mounted /\ Truthy(refs.startTime) /\ ~timer.env.isPaused

\* a tick of the clock: the interval timers fire and set the elapsed time
Tick ==
    /\ timers # << >>
    /\ now < MaxTime
    /\ now' = now + 1
    /\ state' = IF \E i \in DOMAIN timers : Elapses(timers[i])
                THEN [state EXCEPT !.elapsedTime =
                         (DateNow + 1) - refs.startTime.v - refs.pausedTime]
                ELSE state
    /\ event' = [name |-> "tick", paused |-> state.isPaused,
                 elapsedTime |-> state.elapsedTime]
    /\ UNCHANGED <<user, component, view, watch, back, refs, starts, timers,
                   sessions, points, sequence, sensor, deletes, engineVars>>

\* togglePause of the render the view shows
togglePause(env) ==
    /\ refs' = IF env.isPaused
               THEN IF Truthy(refs.lastPauseTime)
                    THEN [refs EXCEPT
                            !.pausedTime = @ + (DateNow - refs.lastPauseTime.v),
                            !.lastPauseTime = null]
                    ELSE refs
               ELSE [refs EXCEPT !.lastPauseTime = Num(DateNow)]
    /\ state' = [state EXCEPT !.isPaused = ~env.isPaused]

\* Pause / Resume, shown while the view is tracking
TogglePause ==
    /\ Pressed("pause")
    /\ view.isTracking
    /\ togglePause(Closure(view))
    /\ event' = [name |-> "togglePause", paused |-> state'.isPaused]
    /\ UNCHANGED <<component, view, watch, back, starts, timers, sessions,
                   points, sequence, now, sensor, deletes, engineVars>>

\* a variant that resets the state only once the summary is saved
stopTracking_NoFinally(env, handler, saved) ==
    IF env.sessionId = null
    THEN /\ event' = [name |-> "alert",
                      text |-> "Session not properly initialized"]
         /\ UNCHANGED <<state, view, watch, back, refs, starts, timers,
                        sessions>>
    ELSE IF saved
    THEN /\ sessions' = endSession(sessions, env.sessionId.v,
                [ totalDistance |-> calculateTotalDistance(env.locations),
                  averageSpeed |-> calculateAverageSpeed(env.locations),
                  maxSpeed |-> calculateMaxSpeed(env.locations),
                  duration |-> env.elapsedTime ])
         /\ state' = InitialState
         /\ view' = InitialState
         /\ back' = Closure(InitialState)
         /\ refs' = InitialRefs
         /\ watch' = IF component = "JoggingScreen"
                     THEN Unmounted(WithoutCurrent(watch))
                     ELSE << >>
         /\ timers' = Unmounted(WithoutCurrent(timers))
         /\ starts' = Unmounted(starts)
         /\ event' = [name |-> "stopTracking", handler |-> handler,
                      sessionId |-> env.sessionId.v,
                      locations |-> state.locations,
                      elapsedTime |-> env.elapsedTime,
                      paused |-> state.isPaused,
                      refs |-> refs]
    ELSE /\ UNCHANGED state
         /\ watch' = IF component = "JoggingScreen"
                     THEN WithoutCurrent(watch)
                     ELSE watch
         /\ timers' = WithoutCurrent(timers)
         /\ event' = [name |-> "saveFailed", handler |-> handler,
                      text |-> "Failed to save tracking data",
                      sessionId |-> env.sessionId.v]
         /\ UNCHANGED <<view, back, refs, starts, sessions>>

\* stopTracking of the render env is from. Without a session id it alerts
\* and returns; otherwise it removes the subscription, clears the timer and
\* saves the summary of env.locations. Saved, it navigates home, which
\* unmounts the view: the view the user opens next is mounted anew. Not
\* saved, it alerts. Either way it resets isTracking, isPaused and sessionId.
stopTracking(env, handler, saved) ==
    IF env.sessionId = null
    THEN /\ event' = [name |-> "alert",
                      text |-> "Session not properly initialized"]
         /\ UNCHANGED <<state, view, watch, back, refs, starts, timers,
                        sessions>>
    ELSE IF saved
    THEN /\ sessions' = endSession(sessions, env.sessionId.v,
                [ totalDistance |-> calculateTotalDistance(env.locations),
                  averageSpeed |-> calculateAverageSpeed(env.locations),
                  maxSpeed |-> calculateMaxSpeed(env.locations),
                  duration |-> env.elapsedTime ])
         /\ state' = InitialState
         /\ view' = InitialState
         /\ back' = Closure(InitialState)
         /\ refs' = InitialRefs
         /\ watch' = IF component = "JoggingScreen"
                     THEN Unmounted(WithoutCurrent(watch))
                     ELSE << >>
         /\ timers' = Unmounted(WithoutCurrent(timers))
         /\ starts' = Unmounted(starts)
         /\ event' = [name |-> "stopTracking", handler |-> handler,
                      sessionId |-> env.sessionId.v,
                      locations |-> state.locations,
                      elapsedTime |-> env.elapsedTime,
                      paused |-> state.isPaused,
                      refs |-> refs]
    ELSE /\ state' = [state EXCEPT !.isTracking = FALSE, !.isPaused = FALSE,
                                   !.sessionId = null]
         /\ watch' = IF component = "JoggingScreen"
                     THEN WithoutCurrent(watch)
                     ELSE watch
         /\ timers' = WithoutCurrent(timers)
         /\ event' = [name |-> "saveFailed", handler |-> handler,
                      text |-> "Failed to save tracking data",
                      sessionId |-> env.sessionId.v]
         /\ UNCHANGED <<view, back, refs, starts, sessions>>

\* Stop & Save from the stop button of the view; endSession resolves or
\* rejects
StopPressed ==
    /\ Pressed("stop")
    /\ view.isTracking
    /\ \E saved \in BOOLEAN : stopTracking(Closure(view), "onPress", saved)
    /\ UNCHANGED <<component, points, sequence, now, sensor, deletes,
                   engineVars>>

\* JoggingScreen: hardware back, then Stop & Save
BackPressed ==
    /\ Pressed("back")
    /\ component = "JoggingScreen"
    /\ back.isTracking
    /\ \E saved \in BOOLEAN : stopTracking(back, "onBackPress", saved)
    /\ UNCHANGED <<component, points, sequence, now, sensor, deletes,
                   engineVars>>

TrackingInit ==
    /\ locations = << >>
    /\ x = Num(0)
    /\ call = [fn |-> "none", ret |-> Num(0)]
    /\ \E c \in {"JoggingScreen", "JoggingPage"}, track \in Tracks :
           Mounted(c, track)
    /\ user \in Presses

TrackingNext ==
    \/ StartTracking
    \/ SessionStarted
    \/ WatchPositionResolved
    \/ LocationChanged
    \/ Render
    \/ Tick
    \/ TogglePause
    \/ StopPressed
    \/ BackPressed

TrackingSpec == TrackingInit /\ [][TrackingNext]_vars

----------------------------------------------------------------------------
(* The store under the views: JoggingService over expo-sqlite (the native   *)
(* app) and over Dexie (the web app).  A session is started, samples are    *)
(* added to it and it is ended, as the tracking views do; the home, detail  *)
(* and history views read the store and delete sessions.                    *)

\* sessions started per run
MaxStored == 4

\* the samples added: a speed set and unset, timestamps that go back and
\* that repeat
StoreSamples ==
    { LocationPoint(Degrees(0), Degrees(0), 2000, Num(20)),
      LocationPoint(Degrees(0), Degrees(90), 1000, Num(30)),
      LocationPoint(Degrees(45), Degrees(0), 2000, undefined) }

\* what the user does with the app, in order: a session is started, a
\* sample arrives, the session is stopped, a session is deleted from the
\* history, the user waits
Uses ==
    { << "start", "sample", "sample", "sample", "stop", "delete" >>,
      << "start", "start", "wait", "start", "stop", "wait", "start", "delete" >>,
      << "start", "sample", "stop", "wait", "start", "sample", "sample",
         "delete", "delete" >> }

\* the tracking view holds a session, and the history view is not deleting
\* it
Recording ==
    /\ state.sessionId # null
    /\ KeyExists(sessions, state.sessionId.v)
    /\ \A i \in DOMAIN deletes : deletes[i].id # state.sessionId.v

\* the keys of a table
Keys(table) == { table[i].id : i \in DOMAIN table }

\* the permutations of 1..n
Orders(n) ==
    { p \in [1..n -> 1..n] : \A i, j \in 1..n : p[i] = p[j] => i = j }

\* a variant that lists the earliest start first
OrderedByStartTimeDesc_Ascending(table) ==
    { [ i \in DOMAIN table |-> table[p[i]] ] :
        p \in { q \in Orders(Len(table)) :
                  \A i, j \in DOMAIN table :
                      i < j => table[q[i]].startTime <= table[q[j]].startTime } }

\* ORDER BY start_time DESC / orderBy('startTime').reverse(): the rows, each
\* once, a later start first; the order of rows with the same start time is
\* left to the store
OrderedByStartTimeDesc(table) ==
    { [ i \in DOMAIN table |-> table[p[i]] ] :
        p \in { q \in Orders(Len(table)) :
                  \A i, j \in DOMAIN table :
                      i < j => table[q[i]].startTime >= table[q[j]].startTime } }

\* row.end_time ? new Date(row.end_time) : undefined
DateOrUndefined(value) == IF Truthy(value) THEN value ELSE undefined

\* JoggingService.getSessions: what it can resolve with. expo-sqlite rows
\* are mapped to sessions; Dexie hands out the objects stored.
getSessions(table) ==
    { [ i \in DOMAIN rows |->
          IF SQLite
          THEN SessionRow(rows[i].id, rows[i].startTime,
                          DateOrUndefined(rows[i].endTime),
                          rows[i].totalDistance, rows[i].averageSpeed,
                          rows[i].maxSpeed, rows[i].duration)
          ELSE rows[i] ] :
        rows \in OrderedByStartTimeDesc(table) }

\* sessions.slice(0, 3)
RecentJogs(listed) ==
    SubSeq(listed, 1, IF Len(listed) < 3 THEN Len(listed) ELSE 3)

\* the rows of a session
WhereSessionId(table, sessionId) ==
    SelectSeq(table, LAMBDA p : p.sessionId = sessionId)

\* ORDER BY timestamp ASC: the order of rows with the same timestamp is left
\* to the store
OrderedByTimestamp(rows) ==
    { [ i \in DOMAIN rows |-> rows[p[i]] ] :
        p \in { q \in Orders(Len(rows)) :
                  \A i, j \in DOMAIN rows :
                      i < j => rows[q[i]].timestamp <= rows[q[j]].timestamp } }

\* sortBy('timestamp'): a stable sort of the rows in the order of their keys
SortedByTimestamp(rows) ==
    { sorted \in OrderedByTimestamp(rows) :
        \A i, j \in DOMAIN sorted :
            (i < j /\ sorted[i].timestamp = sorted[j].timestamp)
                => sorted[i].id < sorted[j].id }

\* JoggingService.getSessionLocations: what it can resolve with
getSessionLocations(table, sessionId) ==
    IF SQLite THEN OrderedByTimestamp(WhereSessionId(table, sessionId))
    ELSE SortedByTimestamp(WhereSessionId(table, sessionId))

\* a variant that deletes the session before its points
deleteSession_SessionFirst == << "jogging_sessions", "location_points" >>

\* JoggingService.deleteSession: the tables it deletes from, in order
deleteSession == << "location_points", "jogging_sessions" >>

\* DELETE FROM <name> WHERE session_id / id = ?
Delete(name, table, sessionId) ==
    IF name = "location_points"
    THEN SelectSeq(table, LAMBDA p : p.sessionId # sessionId)
    ELSE SelectSeq(table, LAMBDA s : s.id # sessionId)

\* the table once the statements have run
Deleted(name, table, statements, sessionId) ==
    IF \E i \in DOMAIN statements : statements[i] = name
    THEN Delete(name, table, sessionId)
    ELSE table

\* nothing read from the store is on display
NothingRead == [fn |-> "none", ret |-> Num(0)]

\* what pertains to the views and the engine's scalar argument
viewVars ==
    <<component, view, watch, back, refs, starts, timers, sensor, locations,
      x>>

\* time passes
ClockTicks ==
    /\ Pressed("wait")
    /\ now < MaxTime
    /\ now' = now + 1
    /\ event' = [name |-> "tick"]
    /\ call' = NothingRead
    /\ UNCHANGED <<sessions, points, sequence, deletes, state, viewVars>>

\* the tracking view starts a session, with an empty route in memory; Dexie
\* rejects a key it already has
StartSession ==
    /\ Pressed("start")
    /\ sequence.jogging_sessions < MaxStored
    /\ IF KeyExists(sessions, startSessionId)
       THEN /\ event' = [name |-> "alert", text |-> "Failed to start tracking"]
            /\ UNCHANGED <<sessions, sequence, state>>
       ELSE /\ sessions' = startSession(sessions)
            /\ sequence' = [sequence EXCEPT !.jogging_sessions = @ + 1]
            /\ state' = [state EXCEPT !.sessionId = Num(startSessionId),
                                      !.locations = << >>]
            /\ event' = [name |-> "startSession", id |-> startSessionId]
    /\ call' = NothingRead
    /\ UNCHANGED <<points, deletes, now, viewVars>>

\* a sample is recorded: it joins the route in memory and is added to the
\* store under the id of the session
AddLocationPoint ==
    /\ Pressed("sample")
    /\ Recording
    /\ sequence.location_points < MaxLen
    /\ \E point \in StoreSamples :
        /\ points' = addLocationPoint(points, sequence.location_points + 1,
                                      state.sessionId.v, point)
        /\ sequence' = [sequence EXCEPT !.location_points = @ + 1]
        /\ state' = [state EXCEPT !.locations = Append(@, point)]
        /\ event' = [name |-> "addLocationPoint", id |-> state.sessionId.v]
    /\ call' = NothingRead
    /\ UNCHANGED <<sessions, deletes, now, viewVars>>

\* the session is stopped and its summary saved
EndSession ==
    /\ Pressed("stop")
    /\ Recording
    /\ sessions' = endSession(sessions, state.sessionId.v,
           [ totalDistance |-> calculateTotalDistance(state.locations),
             averageSpeed |-> calculateAverageSpeed(state.locations),
             maxSpeed |-> calculateMaxSpeed(state.locations),
             duration |-> state.elapsedTime ])
    /\ state' = InitialState
    /\ event' = [name |-> "endSession", id |-> state.sessionId.v]
    /\ call' = NothingRead
    /\ UNCHANGED <<points, sequence, deletes, now, viewVars>>

\* the history view deletes a session. expo-sqlite runs the statements in
\* one transaction; Dexie runs the first and the call waits for it.
DeleteSession ==
    \E sessionId \in Keys(sessions) :
        /\ Pressed("delete")
        /\ \A i \in DOMAIN deletes : deletes[i].id # sessionId
        /\ LET statements == IF SQLite THEN deleteSession
                             ELSE << Head(deleteSession) >>
           IN  /\ sessions' = Deleted("jogging_sessions", sessions, statements,
                                      sessionId)
               /\ points' = Deleted("location_points", points, statements,
                                    sessionId)
        /\ deletes' = IF SQLite THEN deletes
                      ELSE Append(deletes, [ id |-> sessionId,
                                             statements |-> Tail(deleteSession) ])
        /\ event' = [ name |-> IF SQLite THEN "deleteSession" ELSE "delete",
                      id |-> sessionId ]
        /\ call' = NothingRead
        /\ UNCHANGED <<sequence, state, now, viewVars>>

\* Dexie: the statement a call of deleteSession waited for is done, and the
\* call runs the next or resolves
DeleteSessionResumes ==
    /\ deletes # << >>
    /\  LET delete == Head(deletes)
            statements == << Head(delete.statements) >>
        IN  /\ sessions' = Deleted("jogging_sessions", sessions, statements,
                                   delete.id)
            /\ points' = Deleted("location_points", points, statements,
                                 delete.id)
            /\ deletes' = IF Len(delete.statements) = 1 THEN Tail(deletes)
                          ELSE << [ delete EXCEPT !.statements = Tail(@) ] >>
                                   \o Tail(deletes)
            /\ event' = [ name |-> IF Len(delete.statements) = 1
                                   THEN "deleteSession" ELSE "delete",
                          id |-> delete.id ]
    /\ call' = NothingRead
    /\ UNCHANGED <<sequence, state, now, user, viewVars>>

\* the home and history views list the sessions
GetSessions ==
    /\ \E listed \in getSessions(sessions) :
           call' = [fn |-> "getSessions", ret |-> listed]
    /\ event' = [name |-> "getSessions"]
    /\ UNCHANGED <<sessions, points, sequence, deletes, state, now, user,
                   viewVars>>

\* the detail view reads the route of a session
GetSessionLocations ==
    /\ \E sessionId \in Keys(sessions) :
         \E route \in getSessionLocations(points, sessionId) :
           call' = [fn |-> "getSessionLocations", id |-> sessionId,
                    ret |-> route]
    /\ event' = [name |-> "getSessionLocations"]
    /\ UNCHANGED <<sessions, points, sequence, deletes, state, now, user,
                   viewVars>>

StoreInit ==
    /\ locations = << >>
    /\ x = Num(0)
    /\ call = [fn |-> "none", ret |-> Num(0)]
    /\ \E c \in {"HistoryScreen", "HistoryPage"} : Mounted(c, << >>)
    /\ user \in Uses

StoreNext ==
    \/ ClockTicks
    \/ StartSession
    \/ AddLocationPoint
    \/ EndSession
    \/ DeleteSession
    \/ DeleteSessionResumes
    \/ GetSessions
    \/ GetSessionLocations

StoreSpec == StoreInit /\ [][StoreNext]_vars

----------------------------------------------------------------------------
(* Properties of the route aggregation *)

Abs(k) == IF k < 0 THEN -k ELSE k

\* the haversine distance between two samples
Dist(a, b) == calculateDistance(a.latitude, a.longitude, b.latitude, b.longitude)

\* the sum of the distances of the consecutive pairs among the first n samples
RECURSIVE PairwiseSum(_, _)
PairwiseSum(route, n) ==
    IF n < 2 THEN Num(0)
    ELSE Add(PairwiseSum(route, n - 1), Dist(route[n - 1], route[n]))

\* C1: calculateTotalDistance returns the sum of calculateDistance over the
\* consecutive pairs of the route in insertion order (nothing reordered or
\* deduplicated); for three points a, b, c it is distance(a,b) + distance(b,c).
C1_TotalIsPairwiseSum ==
    call.fn = "calculateTotalDistance" =>
        /\ call.ret = PairwiseSum(locations, Len(locations))
        /\ Len(locations) = 3 =>
              call.ret = Add(Dist(locations[1], locations[2]),
                             Dist(locations[2], locations[3]))

\* a route a, b, a that returns to its start, with timestamps out of order:
\* both legs are counted
C1_Witness ==
    /\ call.fn = "calculateTotalDistance"
    /\ Len(locations) = 3
    /\ locations[1].latitude = locations[3].latitude
    /\ locations[1].longitude = locations[3].longitude
    /\ locations[2].timestamp > locations[3].timestamp
    /\ Dist(locations[1], locations[2]).v > 0
    /\ call.ret = Num(2 * Dist(locations[1], locations[2]).v)

\* C2: calculateTotalDistance returns 0 for every route of length 0 or 1,
\* whatever the coordinates of the single sample.
C2_ShortRouteZero ==
    (call.fn = "calculateTotalDistance" /\ Len(locations) <= 1) =>
        call.ret = Num(0)

\* a single sample away from latitude 0, longitude 0
C2_Witness ==
    /\ call.fn = "calculateTotalDistance"
    /\ Len(locations) = 1
    /\ locations[1].latitude # 0
    /\ locations[1].longitude # 0
    /\ call.ret = Num(0)

\* the indices of the samples whose speed is present
Present(route) == { i \in DOMAIN route : route[i].speed.tag = "number" }

\* the sum of the speeds of the samples with index in S
RECURSIVE SumSpeeds(_, _)
SumSpeeds(route, S) ==
    IF S = {} THEN 0
    ELSE LET i == CHOOSE j \in S : TRUE
         IN  route[i].speed.v + SumSpeeds(route, S \ {i})

\* C3: for a route of at least 2 samples of which at least one carries a
\* speed, calculateAverageSpeed returns the sum of the present speeds divided
\* by the number of present speeds (the nearest representable value to that
\* quotient); unset speeds count in neither: speeds 1.0, unset, 2.0 give 1.5.
C3_AverageOfPresent ==
    (call.fn = "calculateAverageSpeed" /\ Len(locations) >= 2
        /\ Present(locations) # {}) =>
        LET n == Cardinality(Present(locations))
            sum == SumSpeeds(locations, Present(locations))
        IN  /\ call.ret.tag = "number"
            /\ 2 * Abs(call.ret.v * n - sum) <= n
            /\ (sum % n = 0) => call.ret.v * n = sum
            /\ ( /\ Len(locations) = 3
                 /\ locations[1].speed = Num(10)
                 /\ locations[2].speed.tag # "number"
                 /\ locations[3].speed = Num(20) ) => call.ret = Num(15)

\* speeds 1.0, unset, 2.0: the average is 1.5
C3_Witness ==
    /\ call.fn = "calculateAverageSpeed"
    /\ Len(locations) = 3
    /\ locations[1].speed = Num(10)
    /\ locations[2].speed = undefined
    /\ locations[3].speed = Num(20)
    /\ call.ret = Num(15)

\* C4: calculateAverageSpeed returns 0 when the route has fewer than 2
\* samples (also a single sample whose speed is set) and when no sample
\* carries a speed.
C4_AverageZero ==
    (call.fn = "calculateAverageSpeed"
        /\ (Len(locations) < 2 \/ Present(locations) = {})) =>
        call.ret = Num(0)

\* a single sample with speed 2.0
C4_Witness ==
    /\ call.fn = "calculateAverageSpeed"
    /\ Len(locations) = 1
    /\ locations[1].speed = Num(20)
    /\ call.ret = Num(0)

\* the greatest of the present speeds of a route that has one
MaxPresent(route) ==
    LET speeds == { route[i].speed.v : i \in Present(route) }
    IN  CHOOSE m \in speeds : \A k \in speeds : k <= m

\* C5: calculateMaxSpeed returns the maximum of the present speeds (negative
\* and zero speeds included), and 0 when the route is empty or no sample has
\* a speed; a one-sample route with speed s gives s, while
\* calculateAverageSpeed of the same route gives 0.
C5_MaxOfPresent ==
    /\ call.fn = "calculateMaxSpeed" =>
          call.ret = IF Present(locations) = {} THEN Num(0)
                     ELSE Num(MaxPresent(locations))
    /\ (Len(locations) = 1 /\ Present(locations) # {}) =>
          /\ call.fn = "calculateMaxSpeed" => call.ret = locations[1].speed
          /\ call.fn = "calculateAverageSpeed" => call.ret = Num(0)

\* a single sample with the negative speed -1.0: the maximum is -1.0
C5_Witness ==
    /\ call.fn = "calculateMaxSpeed"
    /\ Len(locations) = 1
    /\ locations[1].speed = Num(-10)
    /\ call.ret = Num(-10)

----------------------------------------------------------------------------
(* Properties of the speed classification *)

\* the number x is a real (or infinite) value below / at least c tenths
Below(n, c) == n.tag = "number" /\ n.v < c
AtLeast(n, c) == n.tag = "Infinity" \/ (n.tag = "number" /\ n.v >= c)
IsSpeed(n) == n.tag \in {"number", "Infinity"}

\* C6: getActivityType is total with the bands: walking iff speed < 1.5,
\* jogging iff 1.5 <= speed < 3.0, running iff speed >= 3.0.
C6_ActivityBands ==
    (call.fn = "getActivityType" /\ IsSpeed(x)) =>
        /\ call.ret \in {"walking", "jogging", "running"}
        /\ call.ret = "walking" <=> Below(x, 15)
        /\ call.ret = "jogging" <=> (AtLeast(x, 15) /\ Below(x, 30))
        /\ call.ret = "running" <=> AtLeast(x, 30)

\* the boundary 1.5 falls in the upper band
C6_Witness ==
    /\ call.fn = "getActivityType"
    /\ x = Num(15)
    /\ call.ret = "jogging"

\* the colour the bands of the specification give a speed
BandColor(n) ==
    CASE Below(n, 10) -> "#3498db"
      [] AtLeast(n, 10) /\ Below(n, 20) -> "#2ecc71"
      [] AtLeast(n, 20) /\ Below(n, 30) -> "#f1c40f"
      [] AtLeast(n, 30) /\ Below(n, 40) -> "#e67e22"
      [] AtLeast(n, 40) -> "#e74c3c"

\* C7: getSpeedColor is total with the bands: blue iff speed < 1.0, green iff
\* 1.0 <= speed < 2.0, yellow iff 2.0 <= speed < 3.0, orange iff
\* 3.0 <= speed < 4.0, red iff speed >= 4.0; the thresholds are not those of
\* getActivityType (a walking speed of 1.0 to 1.5 is green, a jogging speed
\* is green or yellow).
C7_ColorBands ==
    (call.fn = "getSpeedColor" /\ IsSpeed(x)) =>
        /\ call.ret = "#3498db" <=> Below(x, 10)
        /\ call.ret = "#2ecc71" <=> (AtLeast(x, 10) /\ Below(x, 20))
        /\ call.ret = "#f1c40f" <=> (AtLeast(x, 20) /\ Below(x, 30))
        /\ call.ret = "#e67e22" <=> (AtLeast(x, 30) /\ Below(x, 40))
        /\ call.ret = "#e74c3c" <=> AtLeast(x, 40)
        /\ (AtLeast(x, 10) /\ Below(x, 15)) =>
              (getActivityType(x) = "walking" /\ call.ret = "#2ecc71")

\* the boundary 1.0 is green although its activity type is walking
C7_Witness ==
    /\ call.fn = "getSpeedColor"
    /\ x = Num(10)
    /\ call.ret = "#2ecc71"
    /\ getActivityType(x) = "walking"

\* the speed of a sample as the renderer reads it: an unset speed is 0
SpeedOrZero(point) == IF point.speed.tag = "number" THEN point.speed ELSE Num(0)

\* C8: for a stored route of n >= 2 samples the detail views render exactly
\* n-1 segments, segment i joining sample i to sample i+1 and coloured by
\* the speed of sample i+1 (the destination), an unset speed taken as 0; for
\* n < 2 they render no segment.
C8_SegmentsByDestination ==
    (call.fn \in {"renderRouteSegmentsPage", "renderRouteSegmentsScreen"}) =>
        LET n == Len(locations)
        IN  /\ Len(call.ret) = IF n >= 2 THEN n - 1 ELSE 0
            /\ \A i \in 1..Len(call.ret) :
                  /\ call.ret[i].positions[1]
                        = <<locations[i].latitude, locations[i].longitude>>
                  /\ call.ret[i].positions[2]
                        = <<locations[i + 1].latitude, locations[i + 1].longitude>>
                  /\ call.ret[i].color = BandColor(SpeedOrZero(locations[i + 1]))

\* three samples: the first segment ends at an unset speed (blue), the second
\* at speed 3.5 (orange) although it starts at the unset one
C8_Witness ==
    /\ call.fn = "renderRouteSegmentsScreen"
    /\ Len(locations) = 3
    /\ locations[1].speed = Num(20)
    /\ locations[2].speed = null
    /\ locations[3].speed = Num(35)
    /\ Len(call.ret) = 2
    /\ call.ret[1].color = "#3498db"
    /\ call.ret[2].color = "#e67e22"

----------------------------------------------------------------------------
(* Properties of formatDuration *)

\* a natural number in decimal, at least two digits
TwoDigits(k) == IF k < 10 THEN "0" \o ToString(k) ELSE ToString(k)

\* the text of a duration of v tenths of a second by its decomposition
\* v = 10 * (3600 h + 60 m + s) + f with m, s in 0..59 and f in 0..9
DurationText(v) ==
    LET h == CHOOSE k \in (-MaxHours - 1)..(MaxHours + 1) :
                 k * 36000 <= v /\ v < (k + 1) * 36000
        inHour == v - h * 36000
        m == CHOOSE k \in 0..59 : k * 600 <= inHour /\ inHour < (k + 1) * 600
        inMinute == inHour - m * 600
        sec == CHOOSE k \in 0..59 : k * 10 <= inMinute /\ inMinute < (k + 1) * 10
    IN  IF h > 0
        THEN TwoDigits(h) \o ":" \o TwoDigits(m) \o ":" \o TwoDigits(sec)
        ELSE TwoDigits(m) \o ":" \o TwoDigits(sec)

\* C9 as amended: for every finite seconds value >= 0, formatDuration
\* decomposes it by floor division into hours, minutes in 00..59 and seconds
\* in 00..59 and returns HH:MM:SS when hours > 0 and MM:SS otherwise, each
\* field zero-padded to 2 digits (65 -> 01:05, 3661 -> 01:01:01).
C9_DurationNonNegative ==
    (call.fn = "formatDuration" /\ x.tag = "number" /\ x.v >= 0) =>
        /\ call.ret = DurationText(x.v)
        /\ x = Num(650) => call.ret = "01:05"
        /\ x = Num(36610) => call.ret = "01:01:01"

\* 3661 seconds are formatted as 01:01:01
C9_Witness ==
    /\ call.fn = "formatDuration"
    /\ x = Num(36610)
    /\ call.ret = "01:01:01"

\* C9 as stated: the decomposition, with minutes and seconds in 00..59,
\* holds for every seconds value that is not NaN
C9_Original ==
    (call.fn = "formatDuration" /\ ~isNaN(x)) =>
        /\ x.tag = "number"
        /\ call.ret = DurationText(x.v)

SamePosition(a, b) == a.latitude = b.latitude /\ a.longitude = b.longitude

\* the samples of the route all share one position
OnePosition(route) ==
    \A i \in 1..Len(route) : SamePosition(route[i], route[1])

\* the pair the last calculateDistance call was made for
Prev == locations[call.i - 1]
Current == locations[call.i]

\* C11: the distance from a point to itself is 0, and the total distance of
\* a route whose samples all share one position is 0.
C11_SamePointZero ==
    /\ (call.fn = "calculateDistance" /\ SamePosition(Prev, Current))
          => call.ret = Num(0)
    /\ (call.fn = "calculateTotalDistance" /\ OnePosition(locations))
          => call.ret = Num(0)

\* a distance of 0 was returned for a pair at one position away from the
\* origin of the coordinates
C11_Witness ==
    /\ call.fn = "calculateDistance"
    /\ SamePosition(Prev, Current)
    /\ Prev.latitude # 0
    /\ call.ret = Num(0)

Reverse(route) == [i \in 1..Len(route) |-> route[Len(route) + 1 - i]]

\* C12 (as stated): calculateDistance is symmetric, and the total distance
\* of a route equals the total distance of the reversed route, whatever the
\* length of the route.
C12_Original ==
    /\ call.fn = "calculateDistance" => call.ret = Dist(Current, Prev)
    /\ call.fn = "calculateTotalDistance"
          => call.ret = calculateTotalDistance(Reverse(locations))

\* C12: calculateDistance(a, b) equals calculateDistance(b, a), and the
\* total distance of a route of at most three samples equals the total
\* distance of the reversed route (a longer route adds the same legs in
\* another order, and the rounded sums can differ).
C12_Symmetric ==
    /\ call.fn = "calculateDistance" => call.ret = Dist(Current, Prev)
    /\ (call.fn = "calculateTotalDistance" /\ Len(locations) <= 3)
          => call.ret = calculateTotalDistance(Reverse(locations))

\* a positive total was returned for a route of three samples that is not
\* its own reverse
C12_Witness ==
    /\ call.fn = "calculateTotalDistance"
    /\ Len(locations) = 3
    /\ Reverse(locations) # locations
    /\ ~SamePosition(locations[1], locations[3])
    /\ Gt(call.ret, 0)

\* C13 (as stated): calculateDistance returns a finite, non-negative number
\* of metres for every pair of finite coordinates, antipodal and
\* near-antipodal pairs included.
C13_FiniteNonNegative ==
    call.fn = "calculateDistance"
        => call.ret.tag = "number" /\ call.ret.v >= 0

\* ---------------------------------------------------------------------------
\* The engine and its arguments
\* ---------------------------------------------------------------------------

RouteFunctions ==
    {"calculateTotalDistance", "calculateAverageSpeed", "calculateMaxSpeed"}

\* C14: no engine function changes the route it is given: after a call of
\* calculateTotalDistance, calculateAverageSpeed or calculateMaxSpeed the
\* array has the same length and the same samples in the same order, each
\* with the fields it had.
C14_RouteUnchanged ==
    [][call'.fn \in RouteFunctions
          => /\ Len(locations') = Len(locations)
             /\ \A i \in 1..Len(locations) : locations'[i] = locations[i]]_vars

\* calculateMaxSpeed has returned for a route of three samples of which it
\* filtered one out
C14_Witness ==
    /\ call.fn = "calculateMaxSpeed"
    /\ Len(locations) = 3
    /\ Len(speedPointsOf(locations)) = 2

IsNumberValue(v) == v.tag \in {"number", "NaN", "Infinity"}

OutOfRange(p) ==
    \/ p.latitude < Degrees(-90) \/ p.latitude > Degrees(90)
    \/ p.longitude < Degrees(-180) \/ p.longitude > Degrees(180)

Hundredths(sign, h) ==
    sign \o DigitsOf(h \div 100) \o "."
         \o <<"0", "1", "2", "3", "4", "5", "6", "7", "8", "9">>[((h \div 10) % 10) + 1]
         \o <<"0", "1", "2", "3", "4", "5", "6", "7", "8", "9">>[(h % 10) + 1]

\* text is the number of kilometres in k tenths of a metre, written with
\* two decimals and rounded to a nearest hundredth
NearestHundredth(text, k) ==
    \E h \in {Abs(k) \div 100, Abs(k) \div 100 + 1} :
        /\ 2 * Abs(100 * h - Abs(k)) <= 100
        /\ text = Hundredths(IF k < 0 THEN "-" ELSE "", h)

\* C20 (as stated): for every input formatDistance returns meters / 1000
\* with exactly 2 decimal places, rounded to the nearest hundredth of a
\* kilometre (1500 -> '1.50').
C20_Original ==
    call.fn = "formatDistance"
        => /\ x.tag = "number"
           /\ NearestHundredth(call.ret, x.v)
           /\ x = Num(15000) => call.ret = "1.50"

\* C20: for every finite number of metres formatDistance returns
\* meters / 1000 with exactly 2 decimal places, rounded to the nearest
\* hundredth of a kilometre (1500 -> '1.50').
C20_TwoDecimals ==
    (call.fn = "formatDistance" /\ x.tag = "number")
        => /\ NearestHundredth(call.ret, x.v)
           /\ x = Num(15000) => call.ret = "1.50"

\* 1235 metres were rendered as 1.24 kilometres
C20_Witness ==
    /\ call.fn = "formatDistance"
    /\ x = Num(12350)
    /\ call.ret = "1.24"

\* ---------------------------------------------------------------------------
\* The tracking views and the engine
\* ---------------------------------------------------------------------------

\* the sample the location callback has just recorded
Recorded == state.locations[Len(state.locations)]

\* C15 (as stated): a sample for which the sensor reports no speed is
\* recorded in the route with its speed unset, and so is left out of the
\* average and the maximum speed.
C15_NoSpeedUnset ==
    (event.name = "location" /\ event.accepted /\ event.speed = null)
        => Recorded.speed = undefined

\* C16 (as stated): after every accepted sample the distance, the average
\* speed and the maximum speed of the view are those of the engine over the
\* whole route accumulated so far, the new sample included.
C16_StatsOfWholeRoute ==
    (event.name = "location" /\ event.accepted)
        => /\ state.distance = calculateTotalDistance(state.locations)
           /\ state.averageSpeed = calculateAverageSpeed(state.locations)
           /\ state.maxSpeed = calculateMaxSpeed(state.locations)

\* the row of the session
SessionOf(id) == sessions[CHOOSE i \in DOMAIN sessions : sessions[i].id = id]

\* C17 (as stated): the row endSession writes for a stopped session carries
\* the engine's total distance, average speed and maximum speed of the whole
\* route accumulated in memory, the elapsed time the caller supplied as its
\* duration, and an end time, a missing or falsy field stored as 0.
C17_SummaryOfWholeRoute ==
    event.name = "stopTracking"
        => LET row == SessionOf(event.sessionId)
           IN  /\ row.totalDistance = OrZero(calculateTotalDistance(event.locations))
               /\ row.averageSpeed = OrZero(calculateAverageSpeed(event.locations))
               /\ row.maxSpeed = OrZero(calculateMaxSpeed(event.locations))
               /\ row.duration = OrZero(Num(event.elapsedTime))
               /\ row.endTime # null

\* ---------------------------------------------------------------------------
\* formatSpeed
\* ---------------------------------------------------------------------------

\* the text of h tenths, with a sign
Tenths(sign, h) ==
    sign \o DigitsOf(h \div 10) \o "."
         \o <<"0", "1", "2", "3", "4", "5", "6", "7", "8", "9">>[(h % 10) + 1]

\* text is the number of kilometres per hour in k tenths of a metre per
\* second (36 * k hundredths), written with one decimal and rounded to a
\* nearest tenth
NearestTenth(text, k) ==
    \E h \in {(36 * Abs(k)) \div 10, (36 * Abs(k)) \div 10 + 1} :
        /\ 2 * Abs(10 * h - 36 * Abs(k)) <= 10
        /\ text = Tenths(IF k < 0 THEN "-" ELSE "", h)

\* C21 (as stated): for every input formatSpeed returns
\* metersPerSecond * 3.6 with exactly 1 decimal place, rounded to the
\* nearest tenth of a km/h (10 -> '36.0').
C21_Original ==
    call.fn = "formatSpeed"
        => /\ x.tag = "number"
           /\ NearestTenth(call.ret, x.v)
           /\ x = Num(100) => call.ret = "36.0"

\* C21: for every finite number of metres per second formatSpeed returns
\* metersPerSecond * 3.6 with exactly 1 decimal place, rounded to the
\* nearest tenth of a km/h (10 -> '36.0').
C21_OneDecimal ==
    (call.fn = "formatSpeed" /\ x.tag = "number")
        => /\ NearestTenth(call.ret, x.v)
           /\ x = Num(100) => call.ret = "36.0"

\* 12.4 m/s (44.64 km/h) was rendered as 44.6
C21_Witness ==
    /\ call.fn = "formatSpeed"
    /\ x = Num(124)
    /\ call.ret = "44.6"

\* ---------------------------------------------------------------------------
\* A kilometre along a meridian
\* ---------------------------------------------------------------------------

\* C22: for a route of two points at one longitude, one on the equator and
\* the other 0.009 degrees of latitude from it, calculateTotalDistance is
\* within 1% of 1000 metres.
C22_KilometreAtEquator ==
    (/\ call.fn = "calculateTotalDistance"
     /\ Len(locations) = 2
     /\ locations[1].latitude = 0
     /\ locations[1].longitude = locations[2].longitude
     /\ Abs(locations[2].latitude) = 9)
        => /\ call.ret.tag = "number"
           /\ 100 * Abs(call.ret.v - 1000) <= 1000

\* a total of 1001 metres was returned for two points 0.009 degrees of
\* latitude apart, the second south of the equator
C22_Witness ==
    /\ call.fn = "calculateTotalDistance"
    /\ Len(locations) = 2
    /\ locations[1].latitude = 0
    /\ locations[2].latitude = -9
    /\ locations[1].longitude = locations[2].longitude
    /\ call.ret = Num(1001)

\* ---------------------------------------------------------------------------
\* Pausing, saving and starting in the tracking views
\* ---------------------------------------------------------------------------

\* C23 (as stated): a sample that arrives while the session is paused is not
\* appended to the route in memory, not saved as a location point and not
\* used for the statistics, whatever starts, pauses, resumes and samples
\* came before.
C23_PausedSampleIgnored ==
    (event.name = "location" /\ event.paused)
        => (~event.accepted /\ ~event.saved)

\* the time a session has spent paused: the pauses ended and the one in
\* progress
TimePaused(r, paused) ==
    r.pausedTime + (IF paused /\ r.lastPauseTime # null
                    THEN DateNow - r.lastPauseTime.v ELSE 0)

\* C24 (as stated): the elapsed time shown and the duration saved are the
\* time on the clock since the start less the time spent paused: a tick
\* while the session is paused leaves the elapsed time as it was, and a
\* session stopped while paused is saved without the pause in progress.
C24_ElapsedExcludesPauses ==
    /\ (event.name = "tick" /\ state.sessionId # null)
           => /\ state.elapsedTime
                   = (DateNow - refs.startTime.v)
                       - TimePaused(refs, state.isPaused)
              /\ event.paused => state.elapsedTime = event.elapsedTime
    /\ event.name = "stopTracking"
           => SessionOf(event.sessionId).duration
                = Num((DateNow - event.refs.startTime.v)
                          - TimePaused(event.refs, event.paused))

\* the samples stored for a session, in the order of their insertion
PointsOf(id) ==
    LET rows == SelectSeq(points, LAMBDA p : p.sessionId = id)
    IN  [ i \in DOMAIN rows |->
            LocationPoint(rows[i].latitude, rows[i].longitude,
                          rows[i].timestamp, rows[i].speed) ]

\* C25 (as stated): every sample appended to the route in memory is also
\* written through addLocationPoint under the id of the session, so that at
\* stop the stored points of the session are the samples of the route.
C25_StoredPointsAreRoute ==
    /\ (event.name = "location" /\ event.accepted)
           => /\ event.saved
              /\ state.sessionId # null
              /\ PointsOf(state.sessionId.v) # << >>
              /\ PointsOf(state.sessionId.v)[Len(PointsOf(state.sessionId.v))]
                    = Recorded
    /\ event.name = "stopTracking"
           => PointsOf(event.sessionId) = event.locations

\* C28: a stop that goes on to save leaves isTracking false, isPaused false
\* and the session id cleared whether endSession resolves or rejects; a
\* rejected save is reported as an error; a stop without a session id
\* reports that and writes nothing to the sessions.
C28_StopResets ==
    [][ /\ event'.name \in {"stopTracking", "saveFailed"}
            => /\ ~state'.isTracking
               /\ ~state'.isPaused
               /\ state'.sessionId = null
        /\ event'.name = "saveFailed"
            => /\ event'.text = "Failed to save tracking data"
               /\ sessions' = sessions
        /\ (event'.name = "alert"
              /\ event'.text = "Session not properly initialized")
            => sessions' = sessions ]_vars

\* C28 witness: a save has failed and left the session open with the
\* tracking state reset
C28_Witness ==
    /\ event.name = "saveFailed"
    /\ SessionOf(event.sessionId).endTime = Unset
    /\ ~state.isTracking /\ state.sessionId = null

\* the sessions not ended
Open == { i \in DOMAIN sessions : sessions[i].endTime = Unset }

\* C29 (as stated): at most one session is open, at most one interval timer
\* and one location subscription are live, and the ids of the sessions are
\* distinct, also when start is pressed again before the first start has
\* completed.
C29_OneSessionOpen ==
    /\ Cardinality(Open) <= 1
    /\ Len(timers) <= 1
    /\ Len(watch) <= 1
    /\ \A i, j \in DOMAIN sessions :
           sessions[i].id = sessions[j].id => i = j

\* ---------------------------------------------------------------------------
\* The store
\* ---------------------------------------------------------------------------

\* the rows of the other sessions
OtherSessions(table, id) == SelectSeq(table, LAMBDA s : s.id # id)
OtherPoints(table, id) == SelectSeq(table, LAMBDA p : p.sessionId # id)

\* C26: every statement of deleteSession(id) leaves the other sessions and
\* their points as they were; once deleteSession(id) has completed the store
\* has neither the session nor a point of it; and at no step does a stored
\* point reference a session that is no longer stored.
C26_DeleteRemovesSession ==
    /\ [](\A i \in DOMAIN points : KeyExists(sessions, points[i].sessionId))
    /\ [][ event'.name \in {"delete", "deleteSession"}
             => /\ OtherSessions(sessions', event'.id)
                      = OtherSessions(sessions, event'.id)
                /\ OtherPoints(points', event'.id)
                      = OtherPoints(points, event'.id)
                /\ event'.name = "deleteSession"
                      => /\ ~KeyExists(sessions', event'.id)
                         /\ WhereSessionId(points', event'.id) = << >> ]_vars

\* C26 witness: Dexie has deleted a session that had points, statement by
\* statement, and another session and its points are still stored
C26_Witness ==
    /\ component = "HistoryPage"
    /\ event.name = "deleteSession"
    /\ sequence.location_points > Len(points)
    /\ sessions # << >>
    /\ points # << >>

\* the samples of the rows read
RouteOf(rows) ==
    [ i \in DOMAIN rows |->
        LocationPoint(rows[i].latitude, rows[i].longitude, rows[i].timestamp,
                      rows[i].speed) ]

\* C27 (as stated): getSessionLocations(id) returns the points added for id
\* and none of another session, their latitude, longitude, timestamp and
\* speed (an unset speed too) as they were added, in the order of their
\* insertion, so that the engine's statistics over the route read are those
\* over the route recorded.
C27_RetrievedIsRecorded ==
    call.fn = "getSessionLocations"
        => /\ \A i \in DOMAIN call.ret : call.ret[i].sessionId = call.id
           /\ (Recording /\ state.sessionId.v = call.id)
                 => /\ RouteOf(call.ret) = state.locations
                    /\ calculateTotalDistance(call.ret)
                          = calculateTotalDistance(state.locations)
                    /\ calculateAverageSpeed(call.ret)
                          = calculateAverageSpeed(state.locations)
                    /\ calculateMaxSpeed(call.ret)
                          = calculateMaxSpeed(state.locations)

\* C30: getSessions returns every stored session exactly once, a later start
\* before an earlier one, so that the first three, shown as Recent Jogs, are
\* three sessions no other session was started after; a session not yet
\* ended is returned without an end time.
C30_SessionsListed ==
    call.fn = "getSessions"
        => LET listed == call.ret
               recent == RecentJogs(listed)
           IN  /\ Len(listed) = Len(sessions)
               /\ \A i \in DOMAIN sessions :
                      Cardinality({ j \in DOMAIN listed :
                                      listed[j].id = sessions[i].id }) = 1
               /\ \A i, j \in DOMAIN listed :
                      i < j => listed[i].startTime >= listed[j].startTime
               /\ \A i \in DOMAIN recent, j \in DOMAIN listed :
                      j > Len(recent)
                          => /\ recent[i] = listed[i]
                             /\ recent[i].startTime >= listed[j].startTime
               /\ \A i \in DOMAIN sessions, j \in DOMAIN listed :
                      (listed[j].id = sessions[i].id
                         /\ sessions[i].endTime = Unset)
                          => listed[j].endTime = undefined

\* C30 witness: four sessions are listed, started at different times and at
\* the same time, one ended and one not
C30_Witness ==
    /\ call.fn = "getSessions"
    /\ Len(call.ret) = 4
    /\ call.ret[1].startTime > call.ret[2].startTime
    /\ call.ret[3].startTime = call.ret[4].startTime
    /\ \E i, j \in DOMAIN call.ret :
           /\ call.ret[i].endTime = undefined
           /\ call.ret[j].endTime # undefined

====
